---- MODULE Spec2Model ----
(***************************************************************************)
(* Model of the SFU signaling server: src/server/sfu.py (Participant,      *)
(* Meeting) and src/server/signaling.py (SignalingHandler,                 *)
(* websocket_handler).  All coroutines share one asyncio event loop: a     *)
(* step of the model is the code between two suspension points (await).    *)
(***************************************************************************)
EXTENDS Integers, Sequences, FiniteSets, TLC

\* ---------------------------------------------------------------- bounds
NumHandlers == 3        \* websocket connections (one websocket_handler each)
NumIds == 3             \* distinct values str(uuid.uuid4())[:8] may take
MaxParticipants == 3    \* Participant objects ever constructed
NumMediaHandlers == 2   \* websocket connections, where clients send offers
MaxMediaParticipants == 2   \* Participant objects, where clients send offers
MaxConns == 2           \* RTCPeerConnection objects ever constructed
MaxEvents == 1          \* connectionstatechange handler tasks queued per connection
MaxOffers == 3          \* offer messages received, over all channels
MaxChanges == 2         \* connection-state changes reported by the transports
MaxMediaChanges == 1    \* the same, where every client action is modelled too
MaxFewOffers == 2       \* offer messages received, in the smaller specifications

Handlers == 1..NumHandlers
MediaHandlers == 1..NumMediaHandlers
Ids == 1..NumIds
Parts == 1..MaxParticipants
Conns == 1..MaxConns
Kinds == {"video"}
None == 0
FreeLock == <<"free", 0>>
WsTask(h) == <<"ws", h>>
PcTask(c) == <<"pc", c>>

VARIABLES
    \* Meeting
    participants,   \* Meeting.participants: id -> Participant object (None: absent)
    mlock,          \* holder of Meeting._lock
    \* SignalingHandler
    websockets,     \* SignalingHandler.websockets, in insertion order: <<[pid, ws]>>
    slock,          \* holder of SignalingHandler._lock (a handler, or None)
    \* Participant objects
    nParts,         \* Participant objects constructed so far
    pid,            \* Participant.id
    creator,        \* the websocket_handler that constructed the object
    ppc,            \* Participant.pc (None or a connection)
    tracks,         \* Participant.tracks (its kinds)
    relay_tracks,   \* Participant.relay_tracks (its keys <<other.id, kind>>)
    poppers,        \* the tasks that popped the object from the registry and closed it
    \* RTCPeerConnection objects
    nConns,         \* connections constructed so far
    owner,          \* the participant captured by the connection's event handlers
    connState,      \* pc.connectionState
    sigState,       \* pc.signalingState ("closed" from the start of pc.close())
    attached,       \* relay tracks passed to pc.addTrack: <<other.id, kind>> -> count
    badAttach,      \* addTrack was called while connectionState was failed/closed
    cscPending,     \* connectionstatechange handler tasks emitted, not yet started
    cscPc,          \* position of the running on_connectionstatechange task
    remoteSet,      \* a remote description has been applied to the connection
    closingP,       \* the participant whose close() is awaiting pc.close()
    \* websocket_handler (one per connection)
    wsState,        \* "open", "broken" (peer gone, not yet seen by receive), "closed"
    hpc,            \* position of the handler coroutine
    part,           \* local variable participant
    opc,            \* handle_offer's local variable pc
    isInitial,      \* local variable is_initial
    retries,        \* asyncio.sleep(0.1) waits made by the running handle_offer
    bidx,           \* broadcast: position in the iteration over websockets
    bexc,           \* broadcast: exclude_id
    bdel,           \* broadcast: channels the message was sent to, in order
    \* what the clients and the registries observed
    prior,          \* the ids registered when the handler's join arrived
    joinedReply,    \* the "joined" reply the channel has just received
    plCount,        \* participant_left messages received: channel -> object -> count
    tdCount,        \* runs of the finally block's body per participant object
    keyError,       \* a dict operation raised KeyError
    \* the inputs consumed so far
    nOffers,        \* offer messages received, over all channels
    nChanges,       \* connection-state changes reported by the transports
    nReplies,       \* messages sent to the channel in reply to its offers
    \* relay_tracks_and_renegotiate tasks, one per initial offer (connection)
    rpc,            \* position of the task: "none", "poll", "send", "done", "timeout"
    polls,          \* asyncio.sleep(0.5) waits the task's polling loop has made
    rtodo,          \* other_participants not yet iterated over
    reqSent,        \* the participants whose channel was sent request_offer, in order
    reqFailed       \* the participants for which the send raised (caught)

mvars == <<participants, mlock>>
svars == <<websockets, slock>>
pvars == <<nParts, pid, creator, ppc, tracks, relay_tracks, poppers>>
cvars == <<nConns, owner, connState, sigState, attached, badAttach, cscPending, cscPc,
           remoteSet, closingP>>
hvars == <<wsState, hpc, part, opc, isInitial, retries>>
bvars == <<bidx, bexc, bdel>>
ovars == <<prior, joinedReply, plCount, tdCount, keyError>>
kvars == <<nOffers, nChanges, nReplies>>
rvars == <<rpc, polls, rtodo, reqSent, reqFailed>>
vars == <<mvars, svars, pvars, cvars, hvars, bvars, ovars, kvars, rvars>>

NoReply == [participantId |-> None, participants |-> {}]

Init ==
    /\ participants = [i \in Ids |-> None]
    /\ mlock = FreeLock
    /\ websockets = <<>>
    /\ slock = None
    /\ nParts = 0
    /\ pid = [p \in Parts |-> None]
    /\ creator = [p \in Parts |-> None]
    /\ ppc = [p \in Parts |-> None]
    /\ tracks = [p \in Parts |-> {}]
    /\ relay_tracks = [p \in Parts |-> {}]
    /\ poppers = [p \in Parts |-> <<>>]
    /\ nConns = 0
    /\ owner = [c \in Conns |-> None]
    /\ connState = [c \in Conns |-> "new"]
    /\ sigState = [c \in Conns |-> "stable"]
    /\ attached = [c \in Conns |-> [k \in Ids \X Kinds |-> 0]]
    /\ badAttach = [c \in Conns |-> FALSE]
    /\ cscPending = [c \in Conns |-> 0]
    /\ cscPc = [c \in Conns |-> "idle"]
    /\ remoteSet = [c \in Conns |-> FALSE]
    /\ closingP = None
    /\ wsState = [h \in Handlers |-> "open"]
    /\ hpc = [h \in Handlers |-> "recv"]
    /\ part = [h \in Handlers |-> None]
    /\ opc = [h \in Handlers |-> None]
    /\ isInitial = [h \in Handlers |-> FALSE]
    /\ retries = [h \in Handlers |-> 0]
    /\ bidx = [h \in Handlers |-> 0]
    /\ bexc = [h \in Handlers |-> None]
    /\ bdel = [h \in Handlers |-> <<>>]
    /\ prior = [h \in Handlers |-> {}]
    /\ joinedReply = [h \in Handlers |-> NoReply]
    /\ plCount = [h \in Handlers |-> [p \in Parts |-> 0]]
    /\ tdCount = [p \in Parts |-> 0]
    /\ keyError = FALSE
    /\ nOffers = 0
    /\ nChanges = 0
    /\ nReplies = [h \in Handlers |-> 0]
    /\ rpc = [c \in Conns |-> "none"]
    /\ polls = [c \in Conns |-> 0]
    /\ rtodo = [c \in Conns |-> {}]
    /\ reqSent = [c \in Conns |-> <<>>]
    /\ reqFailed = [c \in Conns |-> {}]

\* ------------------------------------------------------------ pure helpers
\* Meeting.get_participant_list on the registry reg: the ids of all entries.
get_participant_list(reg) == {i \in Ids : reg[i] # None}

\* Meeting.get_other_participants(exclude_id): the objects under the other keys.
get_other_participants(exclude_id) ==
    {participants[i] : i \in {j \in Ids : j # exclude_id /\ participants[j] # None}}

\* self.websockets[participant_id] = ws: a new key is appended, an existing key
\* keeps its position and gets the new value.
DictSet(d, k, w) ==
    IF \E i \in 1..Len(d) : d[i].pid = k
    THEN [i \in 1..Len(d) |-> IF d[i].pid = k THEN [pid |-> k, ws |-> w] ELSE d[i]]
    ELSE Append(d, [pid |-> k, ws |-> w])

\* self.websockets.pop(participant_id, None)
DictPop(d, k) == SelectSeq(d, LAMBDA e : e.pid # k)

\* number of occurrences of w in the sequence s
RECURSIVE CountIn(_, _)
CountIn(s, w) ==
    IF s = <<>> THEN 0
    ELSE (IF Head(s) = w THEN 1 ELSE 0) + CountIn(Tail(s), w)

\* ------------------------------------------------- the two asyncio locks
\* `async with self._lock` does not suspend when nobody holds the lock: the
\* caller goes on in the same step.  Otherwise it waits at the lock.
SigLockFree == slock = None
MeetingLockFree == mlock = FreeLock

\* ------------------------------------------------ Meeting.remove_participant
\* remove_participant without the membership test
RemoveUnguarded(id) == TRUE

\* if participant_id in self.participants
RemoveGuard(id) == participants[id] # None

\* remove_participant(id) suspends in `await self.pc.close()`: an entry is
\* popped and its participant has a connection.
RemoveSuspends(id) ==
    RemoveGuard(id) /\ participants[id] # None /\ ppc[participants[id]] # None

\* Meeting.remove_participant(id) by task t, from the acquisition of the lock
\* to the first suspension: the entry is popped and Participant.close() runs
\* up to `await self.pc.close()`, which marks the connection closed at once
\* and completes later (the lock stays held); without a connection close()
\* finishes here.
remove_participant(t, id) ==
    /\ MeetingLockFree
    /\ IF ~RemoveGuard(id)
       THEN UNCHANGED <<participants, poppers, mlock, closingP,
                        sigState, tracks, relay_tracks, keyError>>
       ELSE IF participants[id] = None
       THEN \* self.participants.pop(participant_id) raises KeyError
            /\ keyError' = TRUE
            /\ UNCHANGED <<participants, poppers, mlock, closingP,
                           sigState, tracks, relay_tracks>>
       ELSE LET p == participants[id] IN
            /\ participants' = [participants EXCEPT ![id] = None]
            /\ poppers' = [poppers EXCEPT ![p] = Append(@, t[1])]
            /\ UNCHANGED keyError
            /\ IF ppc[p] # None
               THEN /\ mlock' = t
                    /\ closingP' = p
                    /\ sigState' = [sigState EXCEPT ![ppc[p]] = "closed"]
                    /\ UNCHANGED <<tracks, relay_tracks>>
               ELSE /\ tracks' = [tracks EXCEPT ![p] = {}]
                    /\ relay_tracks' = [relay_tracks EXCEPT ![p] = {}]
                    /\ UNCHANGED <<mlock, closingP, sigState>>

\* an event is emitted: one more handler task is queued (at most MaxEvents are
\* kept: the tasks read pc.connectionState when they run)
Emit(n) == IF n < MaxEvents THEN n + 1 ELSE n

\* pc.close() running the "closed" handler inline instead of as a task of its
\* own: the handler's remove_participant waits for the lock that t holds
close_finish_inline(t) ==
    /\ mlock = t
    /\ MeetingLockFree
    /\ UNCHANGED <<connState, cscPending, ppc, tracks, relay_tracks, closingP, mlock>>

\* pc.close() completes (connectionState "closed", the connectionstatechange
\* event is emitted: its handler is scheduled as a task), then close() drops
\* the connection and clears the dicts, and remove_participant releases the
\* lock.
close_finish(t) ==
    LET p == closingP
        c == ppc[p]
    IN
    /\ mlock = t
    /\ connState' = [connState EXCEPT ![c] = "closed"]
    /\ cscPending' = [cscPending EXCEPT ![c] = Emit(@)]
    /\ ppc' = [ppc EXCEPT ![p] = None]
    /\ tracks' = [tracks EXCEPT ![p] = {}]
    /\ relay_tracks' = [relay_tracks EXCEPT ![p] = {}]
    /\ closingP' = None
    /\ mlock' = FreeLock

\* ------------------------------------------------- SignalingHandler.broadcast
\* broadcast(message, exclude_id) enters `async with self._lock` and starts
\* the iteration over self.websockets.
broadcast_begin(h, exclude_id) ==
    /\ SigLockFree
    /\ slock' = h
    /\ bidx' = [bidx EXCEPT ![h] = 1]
    /\ bexc' = [bexc EXCEPT ![h] = exclude_id]
    /\ bdel' = [bdel EXCEPT ![h] = <<>>]

\* if pid != exclude_id and not ws.closed
ShouldSend(e, exclude_id) == e.pid # exclude_id /\ wsState[e.ws] # "closed"

\* The next entry of the iteration the message is sent to (the entries before
\* it are skipped without suspension); Len + 1 if there is none.
NextSend(h) ==
    LET js == {j \in bidx[h]..Len(websockets) : ShouldSend(websockets[j], bexc[h])}
    IN IF js = {} THEN Len(websockets) + 1
       ELSE CHOOSE j \in js : \A k \in js : j <= k

\* the broadcast of handler h is over: its locals are gone
broadcast_end(h) ==
    /\ slock' = None
    /\ bidx' = [bidx EXCEPT ![h] = 0]
    /\ bexc' = [bexc EXCEPT ![h] = None]
    /\ bdel' = [bdel EXCEPT ![h] = <<>>]

\* await ws.send_json(message) on the next entry: the message is sent, or
\* send_json raises on a channel whose peer is gone.  The exception leaves
\* broadcast (the lock is released) and its caller: out of the message loop
\* into the finally block (join), or out of the finally block (the handler
\* ends).
BroadcastStep(h) ==
    /\ hpc[h] \in {"join_bcast_iter", "td_bcast_iter"}
    /\ NextSend(h) <= Len(websockets)
    /\ LET join == hpc[h] = "join_bcast_iter"
           e == websockets[NextSend(h)]
       IN
       IF wsState[e.ws] = "open"
       THEN /\ bidx' = [bidx EXCEPT ![h] = NextSend(h) + 1]
            /\ bdel' = [bdel EXCEPT ![h] = Append(@, e.ws)]
            /\ plCount' = IF join THEN plCount
                          ELSE [plCount EXCEPT ![e.ws][part[h]] = @ + 1]
            /\ UNCHANGED <<slock, bexc, hpc, wsState, tdCount>>
       ELSE /\ broadcast_end(h)
            /\ hpc' = [hpc EXCEPT ![h] = IF join THEN "td_unregister" ELSE "done"]
            /\ tdCount' = IF join THEN [tdCount EXCEPT ![part[h]] = @ + 1] ELSE tdCount
            /\ wsState' = [wsState EXCEPT ![h] = IF join THEN @ ELSE "closed"]
            /\ UNCHANGED plCount
    /\ UNCHANGED <<mvars, websockets, pvars, cvars, kvars, rvars>>
    /\ UNCHANGED <<part, opc, isInitial, retries>>
    /\ UNCHANGED <<prior, joinedReply, keyError>>

\* The dict is exhausted: the lock is released and broadcast returns, to the
\* message loop (join) or to the end of the finally block (the handler
\* returns and the server closes the channel).
BroadcastReturn(h) ==
    /\ hpc[h] \in {"join_bcast_iter", "td_bcast_iter"}
    /\ NextSend(h) > Len(websockets)
    /\ broadcast_end(h)
    /\ hpc' = [hpc EXCEPT ![h] = IF hpc[h] = "join_bcast_iter" THEN "recv" ELSE "done"]
    /\ wsState' = [wsState EXCEPT ![h] = IF hpc[h] = "join_bcast_iter" THEN @ ELSE "closed"]
    /\ UNCHANGED <<mvars, websockets, pvars, cvars, ovars, kvars, rvars>>
    /\ UNCHANGED <<part, opc, isInitial, retries>>

\* ------------------------------------------- websocket_handler: the teardown
\* The body of the finally block from stage `from` (1: signaling.unregister,
\* 2: meeting.remove_participant, 3: signaling.broadcast) up to its next
\* suspension: a lock that is held, the await of pc.close(), or the first
\* send of the broadcast.
Teardown(h, from) ==
    LET id == pid[part[h]]
        unreg == from = 1 /\ SigLockFree
        atRemove == from = 2 \/ unreg
        rem == atRemove /\ MeetingLockFree
        closing == rem /\ RemoveSuspends(id)
        atBcast == from = 3 \/ (rem /\ ~closing)
        bc == atBcast /\ SigLockFree
    IN
    /\ websockets' = IF unreg THEN DictPop(websockets, id) ELSE websockets
    /\ IF rem THEN remove_participant(WsTask(h), id)
       ELSE UNCHANGED <<participants, poppers, mlock, closingP,
                        sigState, tracks, relay_tracks, keyError>>
    /\ IF bc THEN broadcast_begin(h, None)
       ELSE UNCHANGED <<slock, bidx, bexc, bdel>>
    /\ hpc' = [hpc EXCEPT ![h] =
                 IF bc THEN "td_bcast_iter"
                 ELSE IF atBcast THEN "td_broadcast"
                 ELSE IF closing THEN "td_closing"
                 ELSE IF atRemove THEN "td_remove"
                 ELSE "td_unregister"]

\* the variables no stage of the teardown changes
TeardownFrame ==
    /\ UNCHANGED <<nParts, pid, creator, ppc>>
    /\ UNCHANGED <<nConns, owner, connState, attached, badAttach, cscPending, cscPc,
                   remoteSet>>
    /\ UNCHANGED <<part, opc, isInitial, retries>>
    /\ UNCHANGED <<prior, joinedReply, plCount, kvars, rvars>>

\* The message loop is left (break, end of iteration, or an exception): the
\* finally block runs; its body runs if a participant was created, otherwise
\* the handler returns.
EnterFinally(h) ==
    IF part[h] # None
    THEN /\ Teardown(h, 1)
         /\ tdCount' = [tdCount EXCEPT ![part[h]] = @ + 1]
    ELSE /\ hpc' = [hpc EXCEPT ![h] = "done"]
         /\ UNCHANGED <<websockets, participants, poppers, mlock, closingP, sigState,
                        tracks, relay_tracks, keyError, slock, bidx, bexc, bdel, tdCount>>

\* the handler waited for a lock of the teardown, or for pc.close()
Unregister(h) ==
    /\ hpc[h] = "td_unregister"
    /\ SigLockFree
    /\ Teardown(h, 1)
    /\ TeardownFrame
    /\ UNCHANGED <<wsState, tdCount>>

TdRemove(h) ==
    /\ hpc[h] = "td_remove"
    /\ MeetingLockFree
    /\ Teardown(h, 2)
    /\ TeardownFrame
    /\ UNCHANGED <<wsState, tdCount>>

TdBroadcast(h) ==
    /\ hpc[h] = "td_broadcast"
    /\ SigLockFree
    /\ Teardown(h, 3)
    /\ TeardownFrame
    /\ UNCHANGED <<wsState, tdCount>>

TdCloseFinish(h) ==
    /\ hpc[h] = "td_closing"
    /\ close_finish(WsTask(h))
    /\ IF SigLockFree
       THEN /\ broadcast_begin(h, None)
            /\ hpc' = [hpc EXCEPT ![h] = "td_bcast_iter"]
       ELSE /\ hpc' = [hpc EXCEPT ![h] = "td_broadcast"]
            /\ UNCHANGED <<slock, bidx, bexc, bdel>>
    /\ UNCHANGED <<participants, websockets, nParts, pid, creator, poppers, ovars, kvars, rvars>>
    /\ UNCHANGED <<nConns, owner, sigState, attached, badAttach, cscPc, remoteSet>>
    /\ UNCHANGED <<wsState, part, opc, isInitial, retries>>


\* --------------------------------------------- websocket_handler: messages
\* A handler that has not consumed any input yet.  Handlers are
\* interchangeable until their first input: the one with the lowest index is
\* taken to be the first to receive something.
Unstarted(h) == hpc[h] = "recv" /\ part[h] = None /\ wsState[h] = "open"
InOrder(h) == \A g \in Handlers : g < h => ~Unstarted(g)

\* str(uuid.uuid4())[:8]: any value, including one in use.  The values are
\* interchangeable: a value not seen so far is taken to be the least one.
UsedIds == {pid[p] : p \in 1..nParts}
NewIds == {i \in Ids : i \in UsedIds \/ \A j \in Ids \ UsedIds : i <= j}

\* Meeting.add_participant, from the acquisition of the lock:
\* self.participants[participant_id] = participant
add_participant(h, id) ==
    LET p == nParts + 1 IN
    /\ MeetingLockFree
    /\ nParts' = p
    /\ pid' = [pid EXCEPT ![p] = id]
    /\ creator' = [creator EXCEPT ![p] = h]
    /\ participants' = [participants EXCEPT ![id] = p]
    /\ part' = [part EXCEPT ![h] = p]

\* if msg_type == "join"
JoinAccepted(h) == TRUE

\* The "participants" field of the joined reply: meeting.get_participant_list(),
\* evaluated after add_participant and register.
JoinedList(reg) == get_participant_list(reg)

\* signaling.register(participant.id, ws) from the acquisition of the lock,
\* then the "joined" reply on the own channel.
register_and_reply(h, id, reg) ==
    /\ SigLockFree
    /\ websockets' = DictSet(websockets, id, h)
    /\ joinedReply' = [joinedReply EXCEPT ![h] =
           [participantId |-> id, participants |-> JoinedList(reg)]]

\* msg_type == "join": participant = await meeting.add_participant(name), then
\* register and the reply if the signaling lock is free.
Join(h) ==
    /\ hpc[h] = "recv"
    /\ wsState[h] = "open"
    /\ InOrder(h)
    /\ JoinAccepted(h)
    /\ nParts < MaxParticipants
    /\ \E id \in NewIds :
         /\ add_participant(h, id)
         /\ IF SigLockFree
            THEN /\ register_and_reply(h, id, participants')
                 /\ hpc' = [hpc EXCEPT ![h] = "join_broadcast"]
            ELSE /\ hpc' = [hpc EXCEPT ![h] = "join_register"]
                 /\ UNCHANGED <<websockets, joinedReply>>
    /\ prior' = [prior EXCEPT ![h] = get_participant_list(participants)]
    /\ UNCHANGED <<mlock, slock, ppc, tracks, relay_tracks, poppers, cvars, bvars, kvars, rvars>>
    /\ UNCHANGED <<wsState, opc, isInitial, retries>>
    /\ UNCHANGED <<plCount, tdCount, keyError>>

\* The handler waited for the signaling lock in register.  send_json raises
\* if the peer has gone meanwhile: the exception leaves the message loop.
Register(h) ==
    /\ hpc[h] = "join_register"
    /\ SigLockFree
    /\ IF wsState[h] = "open"
       THEN /\ register_and_reply(h, pid[part[h]], participants)
            /\ hpc' = [hpc EXCEPT ![h] = "join_broadcast"]
            /\ UNCHANGED <<tdCount, prior>>
       ELSE /\ websockets' = DictSet(websockets, pid[part[h]], h)
            /\ hpc' = [hpc EXCEPT ![h] = "td_unregister"]
            /\ tdCount' = [tdCount EXCEPT ![part[h]] = @ + 1]
            /\ prior' = [prior EXCEPT ![h] = {}]
            /\ UNCHANGED joinedReply
    /\ UNCHANGED <<mvars, slock, pvars, cvars, bvars, kvars, rvars>>
    /\ UNCHANGED <<wsState, part, opc, isInitial, retries>>
    /\ UNCHANGED <<plCount, keyError>>

\* await signaling.broadcast({"type": "participant_joined", ...},
\*                           exclude_id=participant.id)
JoinBroadcast(h) ==
    /\ hpc[h] = "join_broadcast"
    /\ broadcast_begin(h, pid[part[h]])
    /\ hpc' = [hpc EXCEPT ![h] = "join_bcast_iter"]
    /\ prior' = [prior EXCEPT ![h] = {}]
    /\ joinedReply' = [joinedReply EXCEPT ![h] = NoReply]
    /\ UNCHANGED <<mvars, websockets, pvars, cvars, kvars, rvars>>
    /\ UNCHANGED <<wsState, part, opc, isInitial, retries>>
    /\ UNCHANGED <<plCount, tdCount, keyError>>

\* the variables the end of the message loop leaves alone
LoopEndFrame ==
    /\ UNCHANGED <<nParts, pid, creator, ppc>>
    /\ UNCHANGED <<nConns, owner, connState, attached, badAttach, cscPending, cscPc,
                   remoteSet>>
    /\ UNCHANGED <<part, opc, isInitial, retries>>
    /\ UNCHANGED <<prior, joinedReply, plCount, kvars, rvars>>

\* msg_type == "leave" and participant: break
RecvLeave(h) ==
    /\ hpc[h] = "recv"
    /\ wsState[h] = "open"
    /\ part[h] # None
    /\ EnterFinally(h)
    /\ LoopEndFrame
    /\ UNCHANGED wsState

\* json.loads(msg.data) raises on a text frame that is not JSON: nothing in the
\* loop catches it.
RecvMalformed(h) ==
    /\ hpc[h] = "recv"
    /\ wsState[h] = "open"
    /\ InOrder(h)
    /\ EnterFinally(h)
    /\ LoopEndFrame
    /\ UNCHANGED wsState

\* The channel ends: a close frame ends the iteration, a transport error is
\* delivered as WSMsgType.ERROR (break).  ws.closed is true from here on.
RecvClose(h) ==
    /\ hpc[h] = "recv"
    /\ wsState[h] \in {"open", "broken"}
    /\ InOrder(h)
    /\ wsState' = [wsState EXCEPT ![h] = "closed"]
    /\ EnterFinally(h)
    /\ LoopEndFrame

\* The peer goes away while the handler is not reading: sends on the channel
\* raise until receive() notices.
ClientDrop(h) ==
    /\ hpc[h] # "done"
    /\ wsState[h] = "open"
    /\ InOrder(h)
    /\ wsState' = [wsState EXCEPT ![h] = "broken"]
    /\ UNCHANGED <<mvars, svars, pvars, cvars, bvars, ovars, kvars, rvars>>
    /\ UNCHANGED <<hpc, part, opc, isInitial, retries>>


\* the test of on_connectionstatechange, taking "disconnected" for terminal too
IsTerminalOrDisconnected(state) == state \in {"failed", "closed", "disconnected"}

\* ------------------------------------- RTCPeerConnection and its handlers
\* if pc.connectionState in ["failed", "closed"]
IsTerminal(state) == state \in {"failed", "closed"}

\* on_connectionstatechange starts: it reads pc.connectionState and returns,
\* or calls remove_participant(participant.id), which runs up to its first
\* suspension if the meeting lock is free.
CscStart(c) ==
    LET id == pid[owner[c]] IN
    /\ cscPending[c] > 0
    /\ cscPc[c] = "idle"
    /\ cscPending' = [cscPending EXCEPT ![c] = @ - 1]
    /\ IF IsTerminal(connState[c]) /\ MeetingLockFree
       THEN /\ remove_participant(PcTask(c), id)
            /\ cscPc' = [cscPc EXCEPT ![c] = IF RemoveSuspends(id) THEN "closing" ELSE "idle"]
       ELSE /\ cscPc' = [cscPc EXCEPT ![c] = IF IsTerminal(connState[c]) THEN "remove" ELSE "idle"]
            /\ UNCHANGED <<participants, poppers, mlock, closingP,
                           sigState, tracks, relay_tracks, keyError>>
    /\ UNCHANGED <<svars, nParts, pid, creator, ppc, hvars, bvars, kvars, rvars>>
    /\ UNCHANGED <<nConns, owner, connState, attached, badAttach, remoteSet>>
    /\ UNCHANGED <<prior, joinedReply, plCount, tdCount>>

\* the handler task waited for the meeting lock
CscRemove(c) ==
    LET id == pid[owner[c]] IN
    /\ cscPc[c] = "remove"
    /\ remove_participant(PcTask(c), id)
    /\ cscPc' = [cscPc EXCEPT ![c] = IF RemoveSuspends(id) THEN "closing" ELSE "idle"]
    /\ UNCHANGED <<svars, nParts, pid, creator, ppc, hvars, bvars, kvars, rvars>>
    /\ UNCHANGED <<nConns, owner, connState, attached, badAttach, cscPending, remoteSet>>
    /\ UNCHANGED <<prior, joinedReply, plCount, tdCount>>

CscCloseFinish(c) ==
    /\ cscPc[c] = "closing"
    /\ close_finish(PcTask(c))
    /\ cscPc' = [cscPc EXCEPT ![c] = "idle"]
    /\ UNCHANGED <<participants, svars, nParts, pid, creator, poppers, hvars, bvars, ovars>>
    /\ UNCHANGED <<nConns, owner, sigState, attached, badAttach, remoteSet, kvars, rvars>>

\* The transport changes pc.connectionState (after a remote description was
\* applied) and emits connectionstatechange; "closed" is set by pc.close() only.
\* The handler task of one change has started before the transport reports
\* the next one.
NextConnStates(state) ==
    CASE state = "new" -> {"connected", "failed"}
      [] state = "connected" -> {"disconnected", "failed"}
      [] state = "disconnected" -> {"connected", "failed"}
      [] OTHER -> {}

ConnStateChange(c) ==
    /\ c <= nConns
    /\ remoteSet[c]
    /\ sigState[c] # "closed"
    /\ cscPending[c] = 0
    /\ nChanges < MaxChanges
    /\ nChanges' = nChanges + 1
    /\ \E s \in NextConnStates(connState[c]) :
          connState' = [connState EXCEPT ![c] = s]
    /\ cscPending' = [cscPending EXCEPT ![c] = Emit(@)]
    /\ UNCHANGED <<mvars, svars, pvars, hvars, bvars, ovars, nOffers, nReplies, rvars>>
    /\ UNCHANGED <<nConns, owner, sigState, attached, badAttach, cscPc, remoteSet, closingP>>

\* on_track: participant.tracks[track.kind] = track
OnTrack(c, k) ==
    /\ c <= nConns
    /\ remoteSet[c]
    /\ sigState[c] # "closed"
    /\ k \notin tracks[owner[c]]
    /\ tracks' = [tracks EXCEPT ![owner[c]] = @ \cup {k}]
    /\ UNCHANGED <<mvars, svars, cvars, hvars, bvars, ovars, kvars, rvars>>
    /\ UNCHANGED <<nParts, pid, creator, ppc, relay_tracks, poppers>>

\* on_ended: if track.kind in participant.tracks: del participant.tracks[track.kind]
OnEnded(c, k) ==
    /\ c <= nConns
    /\ k \in tracks[owner[c]]
    /\ tracks' = [tracks EXCEPT ![owner[c]] = @ \ {k}]
    /\ UNCHANGED <<mvars, svars, cvars, hvars, bvars, ovars, kvars, rvars>>
    /\ UNCHANGED <<nParts, pid, creator, ppc, relay_tracks, poppers>>


\* ------------------------------------------------------ Meeting.handle_offer
\* if is_renegotiation and pc.signalingState != "stable"
NeedsRetry(is_renegotiation, c) == is_renegotiation /\ sigState[c] # "stable"

\* the relay loop without the test of participant.relay_tracks
RelayKeysUnrecorded(p) ==
    {key \in Ids \X Kinds :
        \E o \in get_other_participants(pid[p]) : pid[o] = key[1] /\ key[2] \in tracks[o]}

\* track_key not in participant.relay_tracks, for every track of every other
\* participant: the keys handle_offer subscribes and attaches now.
RelayKeys(p) ==
    {key \in Ids \X Kinds :
        /\ \E o \in get_other_participants(pid[p]) : pid[o] = key[1] /\ key[2] \in tracks[o]
        /\ key \notin relay_tracks[p]}

\* the check after the wait, taking any state but "closed" for stable
StillUnstableLax(c) == sigState[c] \notin {"stable", "closed"}

\* after asyncio.sleep(0.1): if pc.signalingState != "stable"
StillUnstable(c) == sigState[c] # "stable"

\* handle_offer returns or raises: its locals are gone.
OfferEnds(h) ==
    /\ opc' = [opc EXCEPT ![h] = None]
    /\ isInitial' = [isInitial EXCEPT ![h] = FALSE]
    /\ retries' = [retries EXCEPT ![h] = 0]

\* msg_type == "offer" and participant: is_initial is read, handle_offer
\* creates the connection if there is none, and either waits (renegotiation,
\* not stable) or calls setRemoteDescription, which raises at once on an
\* offer whose sdp does not parse (the except clause prints the error and the
\* message loop goes on).
RecvOffer(h, sdpOk) ==
    LET p == part[h]
        initial == ppc[p] = None
        c == IF initial THEN nConns + 1 ELSE ppc[p]
    IN
    /\ hpc[h] = "recv"
    /\ wsState[h] = "open"
    /\ p # None
    /\ initial => nConns < MaxConns
    /\ nOffers < MaxOffers
    /\ nOffers' = nOffers + 1
    /\ IF initial
       THEN /\ nConns' = c
            /\ owner' = [owner EXCEPT ![c] = p]
            /\ ppc' = [ppc EXCEPT ![p] = c]
       ELSE UNCHANGED <<nConns, owner, ppc>>
    /\ IF NeedsRetry(~initial, c)
       THEN /\ hpc' = [hpc EXCEPT ![h] = "offer_retry"]
            /\ retries' = [retries EXCEPT ![h] = 1]
            /\ isInitial' = [isInitial EXCEPT ![h] = initial]
            /\ opc' = [opc EXCEPT ![h] = c]
       ELSE IF sdpOk
       THEN /\ hpc' = [hpc EXCEPT ![h] = "offer_srd"]
            /\ isInitial' = [isInitial EXCEPT ![h] = initial]
            /\ opc' = [opc EXCEPT ![h] = c]
            /\ UNCHANGED retries
       ELSE /\ UNCHANGED hpc
            /\ OfferEnds(h)
    /\ UNCHANGED <<mvars, svars, bvars, ovars, nChanges, nReplies, rvars>>
    /\ UNCHANGED <<nParts, pid, creator, tracks, relay_tracks, poppers>>
    /\ UNCHANGED <<connState, sigState, attached, badAttach, cscPending, cscPc, remoteSet, closingP>>
    /\ UNCHANGED <<wsState, part>>

\* after asyncio.sleep(0.1): the offer is rejected with the negotiation
\* conflict, or handle_offer goes on with setRemoteDescription
OfferRetry(h, sdpOk) ==
    /\ hpc[h] = "offer_retry"
    /\ IF StillUnstable(opc[h])
       THEN /\ hpc' = [hpc EXCEPT ![h] = "except_conflict"]
            /\ UNCHANGED <<opc, isInitial, retries>>
       ELSE IF sdpOk
       THEN /\ hpc' = [hpc EXCEPT ![h] = "offer_srd"]
            /\ UNCHANGED <<opc, isInitial, retries>>
       ELSE /\ hpc' = [hpc EXCEPT ![h] = "recv"]
            /\ OfferEnds(h)
    /\ UNCHANGED <<mvars, svars, pvars, cvars, bvars, ovars, kvars, rvars>>
    /\ UNCHANGED <<wsState, part>>

\* setRemoteDescription returns (it raises if the connection was closed in the
\* meantime); then the relay loop runs without suspension: relay.subscribe,
\* pc.addTrack, participant.relay_tracks[track_key] = relay_track; then
\* handle_offer awaits createAnswer.
OfferApply(h) ==
    LET p == part[h]
        c == opc[h]
        keys == RelayKeys(p)
    IN
    /\ hpc[h] = "offer_srd"
    /\ IF sigState[c] = "closed"
       THEN /\ hpc' = [hpc EXCEPT ![h] = "recv"]
            /\ OfferEnds(h)
            /\ UNCHANGED <<sigState, remoteSet, attached, badAttach, relay_tracks>>
       ELSE /\ sigState' = [sigState EXCEPT ![c] = "have-remote-offer"]
            /\ remoteSet' = [remoteSet EXCEPT ![c] = TRUE]
            /\ attached' = [attached EXCEPT ![c] =
                              [key \in Ids \X Kinds |-> IF key \in keys THEN @[key] + 1 ELSE @[key]]]
            /\ badAttach' = [badAttach EXCEPT ![c] = @ \/ (keys # {} /\ IsTerminal(connState[c]))]
            /\ relay_tracks' = [relay_tracks EXCEPT ![p] = @ \cup keys]
            /\ hpc' = [hpc EXCEPT ![h] = "offer_answer"]
            /\ UNCHANGED <<opc, isInitial, retries>>
    /\ UNCHANGED <<mvars, svars, bvars, ovars, kvars, rvars>>
    /\ UNCHANGED <<nParts, pid, creator, ppc, tracks, poppers>>
    /\ UNCHANGED <<nConns, owner, connState, cscPending, cscPc, closingP>>
    /\ UNCHANGED <<wsState, part>>

\* handle_offer returned and await ws.send_json({"type": "answer", ...}) sent
\* the answer: the connection was not closed and the peer is there
AnswerSent(h) == sigState[opc[h]] # "closed" /\ wsState[h] = "open"

\* createAnswer and setLocalDescription return (they raise on a closed
\* connection), and the answer is sent on the own channel; after the answer
\* of an initial offer asyncio.create_task(relay_tracks_and_renegotiate(
\* participant)) starts the fan-out task.  Every exception is caught by the
\* handler's except clause, and the message loop goes on.
OfferAnswer(h) ==
    LET c == opc[h] IN
    /\ hpc[h] = "offer_answer"
    /\ sigState' = [sigState EXCEPT ![c] = IF @ = "closed" THEN @ ELSE "stable"]
    /\ nReplies' = [nReplies EXCEPT ![h] = IF AnswerSent(h) THEN @ + 1 ELSE @]
    /\ rpc' = IF AnswerSent(h) /\ isInitial[h] THEN [rpc EXCEPT ![c] = "poll"] ELSE rpc
    /\ hpc' = [hpc EXCEPT ![h] = "recv"]
    /\ OfferEnds(h)
    /\ UNCHANGED <<mvars, svars, pvars, bvars, ovars, nOffers, nChanges>>
    /\ UNCHANGED <<polls, rtodo, reqSent, reqFailed>>
    /\ UNCHANGED <<nConns, owner, connState, attached, badAttach, cscPending, cscPc,
                   remoteSet, closingP>>
    /\ UNCHANGED <<wsState, part>>

\* except Exception as e, after the negotiation conflict was raised: the
\* error is printed and the message loop goes on.
OfferExcept(h) ==
    /\ hpc[h] = "except_conflict"
    /\ hpc' = [hpc EXCEPT ![h] = "recv"]
    /\ OfferEnds(h)
    /\ UNCHANGED <<mvars, svars, pvars, cvars, bvars, ovars, kvars, rvars>>
    /\ UNCHANGED <<wsState, part>>

\* ------------------------------------- relay_tracks_and_renegotiate (task)
\* for _ in range(20)
PollLimit == 20

\* the polling loop without its bound
PollNeverExhausted(n) == FALSE

\* the for loop has made all its iterations: the else branch runs
PollExhausted(n) == n = PollLimit

\* self.websockets.get(participant_id): the channel under the key, or None
Channel(id) ==
    IF \E i \in 1..Len(websockets) : websockets[i].pid = id
    THEN LET i == CHOOSE j \in 1..Len(websockets) : websockets[j].pid = id
         IN websockets[i].ws
    ELSE None

\* the test of the fan-out loop without the connection state
OtherAny(o) == TRUE

\* if other.pc and other.pc.connectionState == "connected"
OtherConnected(o) == ppc[o] # None /\ connState[ppc[o]] = "connected"

\* send_to reaches ws.send_json for the participant o: the loop's test holds,
\* and `if ws and not ws.closed` holds for the channel under o's id
Sendable(o) ==
    /\ OtherConnected(o)
    /\ Channel(pid[o]) # None
    /\ wsState[Channel(pid[o])] # "closed"

\* The loop over other_participants from the set todo of participants not
\* yet iterated over (in the order of their creation), up to the next
\* suspension: participants that are not connected, or whose channel is
\* missing or closed, are passed without suspension; for one whose peer is
\* gone send_json raises, the exception is caught inside the loop and the
\* loop goes on; the first one with an open channel is sent request_offer
\* and the task is suspended in that send.  Without one the task is over.
relay_loop(c, todo) ==
    LET able == {o \in todo : Sendable(o)}
        open == {o \in able : wsState[Channel(pid[o])] = "open"}
        first == CHOOSE o \in open : \A q \in open : o <= q
        passed == IF open = {} THEN able ELSE {o \in able : o < first}
    IN
    /\ reqFailed' = [reqFailed EXCEPT ![c] = @ \cup passed]
    /\ IF open = {}
       THEN /\ rpc' = [rpc EXCEPT ![c] = "done"]
            /\ rtodo' = [rtodo EXCEPT ![c] = {}]
            /\ UNCHANGED reqSent
       ELSE /\ rpc' = [rpc EXCEPT ![c] = "send"]
            /\ rtodo' = [rtodo EXCEPT ![c] = {o \in todo : o > first}]
            /\ reqSent' = [reqSent EXCEPT ![c] = Append(@, first)]

\* await asyncio.sleep(0.5) returns and new_participant.tracks is tested: with
\* a track the loop breaks (its counter is gone), other_participants is
\* computed and the fan-out loop starts; without one the task sleeps again,
\* and after the last of the PollLimit waits the else branch returns.
RelayPoll(c) ==
    /\ rpc[c] = "poll"
    /\ IF tracks[owner[c]] # {}
       THEN /\ polls' = [polls EXCEPT ![c] = 0]
            /\ relay_loop(c, get_other_participants(pid[owner[c]]))
       ELSE /\ polls' = [polls EXCEPT ![c] = @ + 1]
            /\ rpc' = [rpc EXCEPT ![c] = IF PollExhausted(polls[c] + 1) THEN "timeout" ELSE "poll"]
            /\ UNCHANGED <<rtodo, reqSent, reqFailed>>
    /\ UNCHANGED <<mvars, svars, pvars, cvars, hvars, bvars, ovars, kvars>>

\* the send of request_offer returns and the fan-out loop goes on
RelaySend(c) ==
    /\ rpc[c] = "send"
    /\ relay_loop(c, rtodo[c])
    /\ UNCHANGED <<mvars, svars, pvars, cvars, hvars, bvars, ovars, kvars, polls>>

\* ------------------------------------------------------------ specification
\* The whole server, with signaling and media: the clients of MediaHandlers.
Next ==
    \/ \E h \in MediaHandlers : nParts < MaxMediaParticipants /\ Join(h)
    \/ \E h \in MediaHandlers : Register(h)
    \/ \E h \in MediaHandlers : JoinBroadcast(h)
    \/ \E h \in MediaHandlers : BroadcastStep(h)
    \/ \E h \in MediaHandlers : BroadcastReturn(h)
    \/ \E h \in MediaHandlers, sdpOk \in BOOLEAN : RecvOffer(h, sdpOk)
    \/ \E h \in MediaHandlers, sdpOk \in BOOLEAN : OfferRetry(h, sdpOk)
    \/ \E h \in MediaHandlers : OfferApply(h)
    \/ \E h \in MediaHandlers : OfferAnswer(h)
    \/ \E h \in MediaHandlers : OfferExcept(h)
    \/ \E h \in MediaHandlers : RecvMalformed(h)
    \/ \E h \in MediaHandlers : RecvLeave(h)
    \/ \E h \in MediaHandlers : RecvClose(h)
    \/ \E h \in MediaHandlers : ClientDrop(h)
    \/ \E h \in MediaHandlers : Unregister(h)
    \/ \E h \in MediaHandlers : TdRemove(h)
    \/ \E h \in MediaHandlers : TdBroadcast(h)
    \/ \E h \in MediaHandlers : TdCloseFinish(h)
    \/ \E c \in Conns : nChanges < MaxMediaChanges /\ ConnStateChange(c)
    \/ \E c \in Conns : CscStart(c)
    \/ \E c \in Conns : CscRemove(c)
    \/ \E c \in Conns : CscCloseFinish(c)
    \/ \E c \in Conns, k \in Kinds : OnTrack(c, k)
    \/ \E c \in Conns, k \in Kinds : OnEnded(c, k)

Spec == Init /\ [][Next]_vars

\* The media path with the fan-out tasks: clients that join, send offers and
\* may go away, transports that change state, inbound tracks, and the
\* relay_tracks_and_renegotiate tasks with all their waits; nobody leaves, so
\* the meeting lock is never waited for.  (In Spec and
\* SpecTransport the tasks are created and never scheduled: they change
\* nothing but their own locals and the request_offer messages sent.)
NextFanout ==
    \/ \E h \in MediaHandlers : nParts < MaxMediaParticipants /\ Join(h)
    \/ \E h \in MediaHandlers : Register(h)
    \/ \E h \in MediaHandlers : JoinBroadcast(h)
    \/ \E h \in MediaHandlers : BroadcastStep(h)
    \/ \E h \in MediaHandlers : BroadcastReturn(h)
    \/ \E h \in MediaHandlers, sdpOk \in BOOLEAN : nOffers < MaxFewOffers /\ RecvOffer(h, sdpOk)
    \/ \E h \in MediaHandlers : OfferApply(h)
    \/ \E h \in MediaHandlers : OfferAnswer(h)
    \/ \E h \in MediaHandlers : ClientDrop(h)
    \/ \E c \in Conns : nChanges < MaxMediaChanges /\ ConnStateChange(c)
    \/ \E c \in Conns : CscStart(c)
    \/ \E c \in Conns : CscCloseFinish(c)
    \/ \E c \in Conns, k \in Kinds : OnTrack(c, k)
    \/ \E c \in Conns : RelayPoll(c)
    \/ \E c \in Conns : RelaySend(c)

SpecFanout == Init /\ [][NextFanout]_vars

\* The connections and the meeting lock: clients that join, send offers and
\* leave, transports that change state up to MaxChanges times (so that a
\* connected transport can become "disconnected"), and the tasks that remove
\* participants: the finally block of websocket_handler and
\* on_connectionstatechange.
NextTransport ==
    \/ \E h \in MediaHandlers : nParts < MaxMediaParticipants /\ Join(h)
    \/ \E h \in MediaHandlers : Register(h)
    \/ \E h \in MediaHandlers : JoinBroadcast(h)
    \/ \E h \in MediaHandlers : BroadcastStep(h)
    \/ \E h \in MediaHandlers : BroadcastReturn(h)
    \/ \E h \in MediaHandlers, sdpOk \in BOOLEAN : nOffers < MaxFewOffers /\ RecvOffer(h, sdpOk)
    \/ \E h \in MediaHandlers : OfferApply(h)
    \/ \E h \in MediaHandlers : OfferAnswer(h)
    \/ \E h \in MediaHandlers : RecvLeave(h)
    \/ \E h \in MediaHandlers : Unregister(h)
    \/ \E h \in MediaHandlers : TdRemove(h)
    \/ \E h \in MediaHandlers : TdBroadcast(h)
    \/ \E h \in MediaHandlers : TdCloseFinish(h)
    \/ \E c \in Conns : ConnStateChange(c)
    \/ \E c \in Conns : CscStart(c)
    \/ \E c \in Conns : CscRemove(c)
    \/ \E c \in Conns : CscCloseFinish(c)
    \/ \E c \in Conns, k \in Kinds : OnTrack(c, k)

SpecTransport == Init /\ [][NextTransport]_vars

\* The same with the scheduling of the asyncio event loop: a task that is
\* ready to run (a lock it waits for is free, the pc.close() it awaits has
\* completed, a handler task was scheduled) is run eventually.  Nothing is
\* assumed about the clients and the transports.
LiveTransport ==
    /\ SpecTransport
    /\ \A h \in MediaHandlers : WF_vars(TdRemove(h)) /\ WF_vars(TdCloseFinish(h))
    /\ \A c \in Conns : WF_vars(CscStart(c)) /\ WF_vars(CscRemove(c)) /\ WF_vars(CscCloseFinish(c))

\* The server with clients that join and leave and never send an offer: no
\* connection exists, so the meeting lock is never waited for and the
\* teardown goes from unregister to the broadcast without suspension.
NextSignaling ==
    \/ \E h \in Handlers : Join(h)
    \/ \E h \in Handlers : Register(h)
    \/ \E h \in Handlers : JoinBroadcast(h)
    \/ \E h \in Handlers : BroadcastStep(h)
    \/ \E h \in Handlers : BroadcastReturn(h)
    \/ \E h \in Handlers : RecvMalformed(h)
    \/ \E h \in Handlers : RecvLeave(h)
    \/ \E h \in Handlers : RecvClose(h)
    \/ \E h \in Handlers : ClientDrop(h)
    \/ \E h \in Handlers : Unregister(h)

SpecSignaling == Init /\ [][NextSignaling]_vars

\* ------------------------------------------------------------------ claims
\* The server has nothing left to do until a client or a transport acts.
Quiescent ==
    /\ \A h \in Handlers : hpc[h] \in {"recv", "done"}
    /\ \A c \in Conns : cscPending[c] = 0 /\ cscPc[c] = "idle"
    /\ mlock = FreeLock /\ slock = None

\* the channel h is registered under the id of its handler's participant
Registered(h) ==
    /\ part[h] # None
    /\ \E i \in 1..Len(websockets) :
          websockets[i] = [pid |-> pid[part[h]], ws |-> h]

\* C1: a step attaches a relay track for (B.id, k) to a connection only if
\* none was attached for that pair before, the pair is not yet recorded in
\* the owner's relay subscriptions and another registered participant with
\* id B.id has an inbound track of kind k; so every connection has had at
\* most one relay track attached per pair, whatever offers are repeated.
\* An offer that reaches the relay loop attaches one for every such pair.
C1_RelayAttachedOnce ==
    [][/\ \A c \in Conns, key \in Ids \X Kinds :
            attached'[c][key] # attached[c][key] =>
               /\ attached[c][key] = 0
               /\ attached'[c][key] = 1
               /\ key \notin relay_tracks[owner[c]]
               /\ key \in relay_tracks'[owner[c]]
               /\ \E o \in get_other_participants(pid[owner[c]]) :
                     pid[o] = key[1] /\ key[2] \in tracks[o]
       /\ \A h \in Handlers, key \in Ids \X Kinds :
            (/\ hpc[h] = "offer_srd" /\ hpc'[h] = "offer_answer"
             /\ key \notin relay_tracks[part[h]]
             /\ \E o \in get_other_participants(pid[part[h]]) :
                   pid[o] = key[1] /\ key[2] \in tracks[o])
            => attached'[opc[h]][key] = attached[opc[h]][key] + 1]_vars

\* C1 (witness): a renegotiation offer is about to run the relay loop on a
\* connection that already has the relay track of a pair attached.
C1_Witness ==
    \E h \in Handlers, key \in Ids \X Kinds :
        /\ hpc[h] = "offer_srd"
        /\ ~isInitial[h]
        /\ attached[opc[h]][key] = 1
        /\ key \in relay_tracks[part[h]]
        /\ sigState[opc[h]] = "stable"

\* C2: once the connection-state handler has removed participant A (its
\* connection failed or was closed) and the server has nothing left to do,
\* every participant that joined before A and is still registered on an open
\* channel has received participant_left for A exactly once.
C2_LeftSentOnFailure ==
    Quiescent =>
       \A p \in 1..nParts, g \in Handlers :
          (/\ poppers[p] = <<"pc">>
           /\ hpc[g] = "recv" /\ wsState[g] = "open"
           /\ Registered(g) /\ part[g] < p)
          => plCount[g][p] = 1

\* C3: when a handler has terminated, the teardown ran exactly once for every
\* participant the handler created, and the participant is in neither
\* registry.
C3_TeardownOncePerParticipant ==
    \A h \in Handlers : hpc[h] = "done" =>
       \A p \in 1..nParts : creator[p] = h =>
          /\ tdCount[p] = 1
          /\ participants[pid[p]] # p
          /\ \A i \in 1..Len(websockets) :
                websockets[i] # [pid |-> pid[p], ws |-> h]

\* C4: the id add_participant assigns to a new participant is not in the
\* registry, and the registry grows by exactly one entry.
C4_FreshIdOnJoin ==
    [][nParts' # nParts =>
          /\ participants[pid'[nParts']] = None
          /\ Cardinality(get_participant_list(participants')) =
                Cardinality(get_participant_list(participants)) + 1]_vars

\* no other participant was ever given the id of p
SoleId(p) == \A q \in 1..nParts : q # p => pid[q] # pid[p]

\* C5: at most one connection is ever created for a participant (whose id no
\* other participant shares): every offer after the first is a renegotiation
\* on the same connection.
C5_OneConnectionPerJoin ==
    \A p \in 1..nParts :
       SoleId(p) => Cardinality({c \in 1..nConns : owner[c] = p}) <= 1


\* C6: addTrack is never called with a relay track on a connection whose
\* connectionState is failed or closed.
C6_NoAttachOnDeadConnection ==
    \A c \in 1..nConns : ~badAttach[c]

\* the state a rejected offer must leave alone
OfferState ==
    <<participants, websockets, ppc, tracks, relay_tracks, owner, connState,
      sigState, attached, remoteSet>>

\* C7: a renegotiation offer that finds the signaling state not stable waits
\* once; if the state is still not stable after the wait the offer fails
\* with the negotiation conflict, and neither step changes the registries,
\* the connection, its remote description, its relay tracks or the relay
\* subscriptions.  No offer waits more than once.
C7_ConflictLeavesStateUnchanged ==
    [][\A h \in Handlers :
          /\ (hpc[h] = "recv" /\ hpc'[h] = "offer_retry") =>
                (retries'[h] = 1 /\ UNCHANGED OfferState)
          /\ (hpc[h] = "offer_retry" /\ hpc'[h] # hpc[h]) =>
                /\ retries[h] = 1
                /\ hpc'[h] = "except_conflict" <=> sigState[opc[h]] # "stable"
                /\ hpc'[h] = "except_conflict" => UNCHANGED OfferState
          /\ hpc'[h] = "offer_retry" => hpc[h] \in {"recv", "offer_retry"}
          /\ (hpc[h] = "offer_srd" /\ hpc'[h] = "offer_answer") =>
                sigState[opc[h]] = "stable"]_vars

\* C7 (witness): an offer was rejected with the negotiation conflict while
\* its participant is registered with the connection.
C7_Witness ==
    \E h \in Handlers :
        /\ hpc[h] = "except_conflict"
        /\ ppc[part[h]] = opc[h]
        /\ retries[h] = 1

\* C8: the joined reply carries the id assigned to the joiner and the ids
\* that were registered before it joined.
C8_JoinedListsPriorParticipants ==
    \A h \in Handlers : joinedReply[h] # NoReply =>
        /\ joinedReply[h].participantId = pid[part[h]]
        /\ joinedReply[h].participants = prior[h]

\* C9: remove_participant never raises and an object is popped from the
\* registry and closed at most once, whoever calls (the teardown of the
\* channel, the connection-state handler, or both).
C9_RemoveIdempotent ==
    /\ keyError = FALSE
    /\ \A p \in Parts : Len(poppers[p]) <= 1

\* C9 (witness): the teardown of a channel has called remove_participant for
\* a participant the connection-state handler had already removed.
C9_Witness ==
    \E h \in Handlers :
        /\ hpc[h] \in {"td_bcast_iter", "done"}
        /\ part[h] # None
        /\ SoleId(part[h])
        /\ poppers[part[h]] = <<"pc">>
        /\ tdCount[part[h]] = 1

\* C10: when a broadcast ends, every registered channel that is open, other
\* than the excluded one, has been sent the message.
C10_BroadcastReachesAll ==
    [][\A h \in Handlers : (bidx[h] > 0 /\ bidx'[h] = 0) =>
          \A i \in 1..Len(websockets) :
             (websockets[i].pid # bexc[h] /\ wsState[websockets[i].ws] = "open")
             => CountIn(bdel[h], websockets[i].ws) >= 1]_vars


\* C11: a send that fails during the broadcast of a handler's join does not
\* end that handler's message loop: the broadcast goes on or returns to the
\* loop, and no teardown starts for the joiner.
C11_SendFailureIsolated ==
    [][\A h \in Handlers : hpc[h] = "join_bcast_iter" =>
          /\ hpc'[h] \in {"join_bcast_iter", "recv"}
          /\ tdCount'[part[h]] = tdCount[part[h]]]_vars

\* C13: a text frame that does not parse is dropped: the handler of a joined
\* participant stays in its message loop, no teardown starts, and the
\* participant stays in both registries.
C13_MalformedDropped ==
    [][\A h \in Handlers : (RecvMalformed(h) /\ part[h] # None) =>
          /\ hpc'[h] = "recv"
          /\ tdCount' = tdCount
          /\ participants' = participants
          /\ websockets' = websockets]_vars

\* C14: when an offer was rejected with the negotiation conflict, the
\* handler sends the offering client a reply, goes back to its message loop
\* and starts no teardown; the participant keeps its connection.
C14_ConflictReported ==
    [][\A h \in Handlers : (hpc[h] = "except_conflict" /\ hpc'[h] # hpc[h]) =>
          /\ nReplies'[h] = nReplies[h] + 1
          /\ hpc'[h] = "recv"
          /\ tdCount' = tdCount
          /\ ppc'[part[h]] = ppc[part[h]]]_vars

\* C16: a handler creates at most one participant: a join is acted on only
\* while the handler has none.
C16_OneParticipantPerHandler ==
    \A h \in Handlers : Cardinality({p \in 1..nParts : creator[p] = h}) <= 1

\* C20: a participant that is not in the Meeting registry holds no open
\* connection, and when a handler has finished, every connection created for
\* its participant is closed.
C20_NoOrphanedConnection ==
    /\ \A p \in 1..nParts :
          (SoleId(p) /\ participants[pid[p]] # p /\ ppc[p] # None)
          => sigState[ppc[p]] = "closed"
    /\ \A h \in Handlers, c \in 1..nConns :
          (hpc[h] = "done" /\ owner[c] = part[h] /\ SoleId(owner[c]))
          => sigState[c] = "closed"

\* C12: a fan-out task makes at most PollLimit waits; a wait after which the
\* participant still has no inbound track changes nothing but the task's
\* counter: registries, locks, connections and handlers are as before, so
\* every handler can go on as it could; after the last wait the task is over
\* (without an exception), it has sent no request_offer and sends none later.
C12_PollTimeoutTerminates ==
    [][\A c \in Conns :
          /\ polls'[c] <= PollLimit
          /\ (rpc[c] = "poll" /\ tracks[owner[c]] = {} /\ polls'[c] # polls[c]) =>
                /\ polls'[c] = polls[c] + 1
                /\ rpc'[c] = IF polls'[c] = PollLimit THEN "timeout" ELSE "poll"
                /\ <<mvars, svars, pvars, cvars, hvars, bvars, ovars>>' =
                      <<mvars, svars, pvars, cvars, hvars, bvars, ovars>>
                /\ reqSent' = reqSent /\ reqFailed' = reqFailed
          /\ rpc'[c] = "timeout" =>
                /\ reqSent'[c] = <<>> /\ reqFailed'[c] = {}
                /\ rpc[c] \in {"poll", "timeout"}
          /\ rpc[c] = "timeout" => rpc'[c] = "timeout"]_vars

\* the task of a participant timed out after PollLimit waits, in a meeting
\* with two participants
C12_Witness ==
    \E c \in Conns : rpc[c] = "timeout" /\ polls[c] = PollLimit /\ nParts = 2

C17_FailedSendCaught ==
    \E c \in Conns : rpc[c] = "done" /\ reqFailed[c] # {}

\* C15: whenever a connection's offer has been answered on an open channel
\* and its participant has an inbound track, the fan-out task of that
\* connection exists (it is polling, sending, or over); without the task no
\* request_offer is ever sent for the participant.  This covers the
\* participant whose first offer failed and whose later offer was answered.
C15_FanoutStarted ==
    \A c \in 1..nConns :
       (/\ remoteSet[c] /\ sigState[c] = "stable"
        /\ wsState[creator[owner[c]]] = "open"
        /\ tracks[owner[c]] # {}) => rpc[c] # "none"

\* C18: a change of pc.connectionState to "connected" or "disconnected"
\* changes neither registry nor any participant's connection, inbound tracks
\* or relay subscriptions; the handler task that finds the state to be other
\* than "failed" or "closed" returns at once and leaves all of them and the
\* meeting lock unchanged; and a connection-state handler pops a participant
\* from the registry only while the state is "failed" or "closed".
C18_OnlyTerminalStatesRemove ==
    [][\A c \in Conns :
          /\ (connState'[c] # connState[c] /\ connState'[c] \in {"connected", "disconnected"}) =>
                /\ participants' = participants /\ websockets' = websockets
                /\ ppc' = ppc /\ tracks' = tracks /\ relay_tracks' = relay_tracks
          /\ (cscPending'[c] < cscPending[c] /\ connState[c] \notin {"failed", "closed"}) =>
                /\ participants' = participants /\ websockets' = websockets
                /\ ppc' = ppc /\ tracks' = tracks /\ relay_tracks' = relay_tracks
                /\ mlock' = mlock /\ sigState' = sigState
                /\ cscPc'[c] = "idle"
          /\ (/\ \/ cscPending'[c] < cscPending[c]
                 \/ cscPc[c] = "remove" /\ cscPc'[c] # "remove"
              /\ participants' # participants) =>
                connState[c] \in {"failed", "closed"}]_vars

\* the handler task of a change to "disconnected" has run and returned: the
\* participant is registered and has its connection, tracks included
C18_Witness ==
    \E c \in Conns :
       /\ connState[c] = "disconnected" /\ cscPending[c] = 0 /\ cscPc[c] = "idle"
       /\ participants[pid[owner[c]]] = owner[c]
       /\ ppc[owner[c]] = c /\ tracks[owner[c]] # {}

\* C19: the meeting lock is always released again, so add_participant, which
\* waits for nothing but the lock, gets it; a websocket_handler waiting in
\* remove_participant for the lock gets it, and so does a connection-state
\* handler, the one started by the "closed" event of a close included; a
\* remove_participant that awaits pc.close() under the lock completes.
C19_LockNeverDeadlocks ==
    /\ (mlock # FreeLock) ~> (mlock = FreeLock)
    /\ \A h \in MediaHandlers :
          /\ (hpc[h] = "td_remove") ~> (hpc[h] \notin {"td_remove", "td_closing"})
          /\ (hpc[h] = "td_closing") ~> (hpc[h] # "td_closing")
    /\ \A c \in Conns :
          /\ (cscPending[c] > 0) ~> (cscPending[c] = 0)
          /\ (cscPc[c] # "idle") ~> (cscPc[c] = "idle")

\* the handler task of a "closed" event waits in remove_participant for the
\* lock, which another remove_participant holds while it closes a connection
C19_Witness ==
    \E c \in Conns :
       /\ cscPc[c] = "remove" /\ connState[c] = "closed"
       /\ mlock # FreeLock /\ closingP # None

====
